---- MODULE Spec2Model ----
(***************************************************************************)
(* Device-scoped token lifecycle of backend/routers/auth.py: the users and *)
(* devices tables, the token issuer and verifier, and the register, login, *)
(* auto-connect, auto-login and /auth/me handlers, each split at its       *)
(* database statements so that concurrent requests interleave.             *)
(*                                                                         *)
(* Strings that the code tests for emptiness (device_id) are sequences of  *)
(* naturals; user ids (uuid4 strings) are positive naturals and 0 stands   *)
(* for a missing or empty "sub".  Time is counted in ticks of              *)
(* 1/TicksPerSec second; JWT NumericDate claims are whole seconds.  The    *)
(* clock is observed only where the code reads it, so the time that passes *)
(* between two readings is added by the step that makes the next reading.  *)
(***************************************************************************)
EXTENDS Integers, Sequences, FiniteSets, TLC

\* ---------------------------------------------------------------- bounds
MaxReqs == 3
MaxTicks == 2
MaxJumps == 1
TicksPerSec == 2
Procs == {1, 2}

\* ------------------------------------------------------ program constants
JWT_ACCESS_TOKEN_EXPIRE_DAYS == 7
SecondsPerDay == 24 * 60 * 60
\* timedelta(days=JWT_ACCESS_TOKEN_EXPIRE_DAYS), in ticks
DefaultDelta == JWT_ACCESS_TOKEN_EXPIRE_DAYS * SecondsPerDay * TicksPerSec
\* a short explicit expires_delta (one second), in ticks
ShortDelta == TicksPerSec

DemoEmail == "demo@example.com"
DemoName == "Demo User"
Emails == {DemoEmail, "a@x.io"}
Usernames == {"alice"}
UserIds == 1 .. Cardinality(Emails)

\* device_fingerprint values a client may send; <<>> is the empty string
EmptyStr == << >>
Fingerprints == {EmptyStr, <<1>>, <<2>>}
\* str(uuid.uuid4()): the n-th identifier generated by the server
Uuid(n) == <<0, n>>
IsUuid(d) == Len(d) = 2 /\ d[1] = 0

\* the process-wide / attacker-known key, never a device secret
SharedKey == 0

VARIABLES users, devices, now, pc, loc, issued, last, prev, nreq, workers

vars == <<users, devices, now, pc, loc, issued, last, prev, nreq, workers>>

\* ------------------------------------------------------------ sequences
Range(s) == {s[i] : i \in 1 .. Len(s)}
Max(S) == CHOOSE x \in S : \A y \in S : y <= x
Min(S) == CHOOSE x \in S : \A y \in S : x <= y

\* ------------------------------------------------------------- the store
\* the query without its filter
UsersByEmail_Unfiltered(us, e) == 1 .. Len(us)

\* Query(DBUser).filter(email == e).first()
UsersByEmail(us, e) == {i \in 1 .. Len(us) : us[i].email = e}

\* Query(DBUser).filter(id == u).first()
UsersById(us, u) == {i \in 1 .. Len(us) : us[i].id = u}

\* Query(DBUser).first(): no ORDER BY, so the row comes in the order of the
\* table scan.  MySQL/InnoDB scans in primary-key order; SQLite's rowid
\* (insertion) order is the case in which the uuid4 keys happen to be
\* generated in increasing order.
FirstUser(us) ==
    CHOOSE i \in 1 .. Len(us) : \A j \in 1 .. Len(us) : us[i].id <= us[j].id

\* the filter without its device_id condition
DeviceMatches_AnyDevice(ds, d, u) ==
    {i \in 1 .. Len(ds) : ds[i].user_id = u /\ ds[i].is_active}

\* filter(device_id == d, user_id == u, is_active == True)
DeviceMatches(ds, d, u) ==
    {i \in 1 .. Len(ds) : ds[i].device_id = d /\ ds[i].user_id = u /\ ds[i].is_active}

\* .first() of the filtered rows
FirstDevice(ds, d, u) == Min(DeviceMatches(ds, d, u))

\* a devices table created without the unique constraint
DeviceIdTaken_NoConstraint(ds, d) == FALSE

\* sa.UniqueConstraint('device_id'): an INSERT of device_id d is refused
DeviceIdTaken(ds, d) == \E i \in 1 .. Len(ds) : ds[i].device_id = d

\* the email query that never finds a row
EmailTaken_Never(us, e) == FALSE

\* Column(email, unique=True)
EmailTaken(us, e) == UsersByEmail(us, e) # {}

\* the process-wide key handed out as the device secret
FreshSecret_Shared(ds) == SharedKey

\* secrets.token_urlsafe(32): a value no existing row holds
FreshSecret(ds) == 1 + Max({SharedKey} \cup {ds[i].jwt_secret_key : i \in 1 .. Len(ds)})

\* a generator that returns the same identifier every time
FreshUuid_Repeated(ds) == Uuid(1)

\* str(uuid.uuid4()) for a device: an identifier no existing row holds
FreshUuid(ds) == Uuid(1 + Cardinality({i \in 1 .. Len(ds) : IsUuid(ds[i].device_id)}))

\* a row created with the flag off
NewDevice_Inactive(d, secret, u, t) ==
    [device_id |-> d, jwt_secret_key |-> secret, user_id |-> u,
     is_active |-> FALSE, last_used_at |-> t]

\* DBDevice(device_id, jwt_secret_key, user_id, is_active=True, last_used_at)
NewDevice(d, secret, u, t) ==
    [device_id |-> d, jwt_secret_key |-> secret, user_id |-> u,
     is_active |-> TRUE, last_used_at |-> t]

\* the email stored in the username column as well
NewUser_EmailAsName(id, name, email) == [id |-> id, username |-> email, email |-> email]

\* DBUser(id, username, email, ...)
NewUser(id, name, email) == [id |-> id, username |-> name, email |-> email]

\* ----------------------------------------------------------------- tokens
\* jose converts a datetime claim with timegm(utctimetuple()): whole seconds
NumericDate(t) == t \div TicksPerSec

\* HMAC-SHA256 of the claims under a key, kept symbolic
HS256(key, sub, dev, iat, exp) ==
    [key |-> key, sub |-> sub, device_id |-> dev, iat |-> iat, exp |-> exp]

\* jwt.encode(to_encode, key, algorithm)
Encode(sub, dev, iat, exp, key) ==
    [sub |-> sub, device_id |-> dev, iat |-> iat, exp |-> exp,
     sig |-> HS256(key, sub, dev, iat, exp)]

\* expires_delta = None
NoDelta == -1

\* "if expires_delta:" is false for None and for timedelta(0) alike
ExpireAt(expires_delta, t) ==
    IF expires_delta # NoDelta /\ expires_delta # 0
    THEN t + expires_delta ELSE t + DefaultDelta

\* the secret passed where the user id belongs
create_device_specific_jwt_SecretAsSub(user_id, device_id, device_secret, expires_delta, t_iat, t_exp) ==
    Encode(device_secret, device_id, NumericDate(t_iat),
           NumericDate(ExpireAt(expires_delta, t_exp)), device_secret)

\* t_iat, t_exp: the two readings of datetime.now() (lines 61 and 65/67)
create_device_specific_jwt(user_id, device_id, device_secret, expires_delta, t_iat, t_exp) ==
    Encode(user_id, device_id, NumericDate(t_iat),
           NumericDate(ExpireAt(expires_delta, t_exp)), device_secret)

\* jwt.decode(token, options={"verify_signature": False})
Claims(token) ==
    [sub |-> token.sub, device_id |-> token.device_id, iat |-> token.iat, exp |-> token.exp]

NoClaims == [sub |-> 0, device_id |-> EmptyStr, iat |-> 0, exp |-> 0]
NoToken == Encode(0, EmptyStr, 0, 0, SharedKey)

\* the verified decode run with verify_signature still switched off
SignatureOk_Unverified(token, key) == TRUE

\* jws.verify: the signature is the MAC of these claims under this key
SignatureOk(token, key) ==
    token.sig = HS256(key, token.sub, token.device_id, token.iat, token.exp)

\* the verified decode run with verify_exp switched off
ExpOk_Unchecked(token, t) == TRUE

\* jose _validate_exp: raises ExpiredSignatureError iff exp < now (seconds)
ExpOk(token, t) == ~(token.exp < NumericDate(t))

\* verify_device_token that trusts the signature of any token whose device
\* row is found
VerifyError_LookupOnly(token, ds, t) ==
    IF Len(token.device_id) = 0 \/ token.sub = 0 THEN "InvalidFormat"
    ELSE IF DeviceMatches(ds, token.device_id, token.sub) = {} THEN "DeviceNotFound"
    ELSE IF ~ExpOk(token, t) THEN "Expired"
    ELSE "ok"

\* verify_device_token with the device lookup ahead of the test of line 168
VerifyError_LookupFirst(token, ds, t) ==
    IF DeviceMatches(ds, token.device_id, token.sub) = {} THEN "DeviceNotFound"
    ELSE IF Len(token.device_id) = 0 \/ token.sub = 0 THEN "InvalidFormat"
    ELSE IF ~SignatureOk(token, ds[FirstDevice(ds, token.device_id, token.sub)].jwt_secret_key)
         THEN "InvalidSignature"
    ELSE IF ~ExpOk(token, t) THEN "Expired"
    ELSE "ok"

\* verify_device_token with the signature checked against any row of the
\* device_id before the lookup by (device_id, sub, is_active)
VerifyError_SignatureFirst(token, ds, t) ==
    IF Len(token.device_id) = 0 \/ token.sub = 0 THEN "InvalidFormat"
    ELSE IF \E i \in 1 .. Len(ds) : /\ ds[i].device_id = token.device_id
                                     /\ ~SignatureOk(token, ds[i].jwt_secret_key)
         THEN "InvalidSignature"
    ELSE IF DeviceMatches(ds, token.device_id, token.sub) = {} THEN "DeviceNotFound"
    ELSE IF ~ExpOk(token, t) THEN "Expired"
    ELSE "ok"

\* verify_device_token without the test of line 168
VerifyError_FormatUnchecked(token, ds, t) ==
    IF DeviceMatches(ds, token.device_id, token.sub) = {} THEN "DeviceNotFound"
    ELSE IF ~SignatureOk(token, ds[FirstDevice(ds, token.device_id, token.sub)].jwt_secret_key)
         THEN "InvalidSignature"
    ELSE IF ~ExpOk(token, t) THEN "Expired"
    ELSE "ok"

\* verify_device_token up to the verified decode, as the error it ends in
VerifyError(token, ds, t) ==
    IF Len(token.device_id) = 0 \/ token.sub = 0 THEN "InvalidFormat"
    ELSE IF DeviceMatches(ds, token.device_id, token.sub) = {} THEN "DeviceNotFound"
    ELSE IF ~SignatureOk(token, ds[FirstDevice(ds, token.device_id, token.sub)].jwt_secret_key)
         THEN "InvalidSignature"
    ELSE IF ~ExpOk(token, t) THEN "Expired"
    ELSE "ok"

\* the HTTPException detail each error leaves verify_device_token with: the
\* two HTTPExceptions raised inside the try are caught by "except Exception"
VerifyDetail(verr) ==
    CASE verr = "InvalidFormat" -> "Token verification failed"
      [] verr = "DeviceNotFound" -> "Token verification failed"
      [] verr = "InvalidSignature" -> "Invalid token"
      [] verr = "Expired" -> "Invalid token"
      [] OTHER -> ""

\* ------------------------------------------------------- request state
\* the locals of one running handler
NoLoc ==
    [op |-> "none", fp |-> EmptyStr, username |-> "", email |-> "", user |-> 0,
     t |-> 0, idx |-> 0, token |-> NoToken, nu0 |-> 0, nd0 |-> 0]

\* the body of a response that carries no user
NoProfile == [id |-> 0, username |-> "", email |-> ""]

\* what a finished request answered, with the exception behind a failure
\* (verr), the table sizes at its start and end, the last_used_at of the
\* device it touched, for /auth/me the time of the verification (at) and,
\* for a direct call of the issuer, the expires_delta it was given (ttl)
NoResp ==
    [op |-> "none", fp |-> EmptyStr, username |-> "", email |-> "",
     status |-> 0, detail |-> "", verr |-> "",
     user |-> 0, token |-> NoToken, presented |-> NoToken, claims |-> NoClaims,
     profile |-> NoProfile, ttl |-> NoDelta,
     nu0 |-> 0, nd0 |-> 0, nu1 |-> 0, nd1 |-> 0, lua |-> 0, at |-> 0]

\* empty tables, no request yet
InitStore ==
    /\ users = << >>
    /\ devices = << >>
    /\ now = 0
    /\ pc = [p \in Procs |-> "idle"]
    /\ loc = [p \in Procs |-> NoLoc]
    /\ issued = {}
    /\ last = NoResp
    /\ prev = NoResp
    /\ nreq = 0

\* every worker process of the server takes requests
Init == InitStore /\ workers = Cardinality(Procs)

\* a single worker process: its handlers are coroutines that never await
\* anything but each other, so each runs to its response before the next
\* request is taken
InitSeq == InitStore /\ workers = 1

\* ----------------------------------------------------------------- clock
AllIdle == \A p \in Procs : pc[p] = "idle"

\* datetime.now(timezone.utc) read by a running handler: the last reading,
\* or one tick later
Clock == {now} \cup (IF now % DefaultDelta < MaxTicks THEN {now + 1} ELSE {})

\* the default token lifetime passes between two requests (no request stays
\* in flight that long)
Jump ==
    /\ AllIdle
    /\ now \div DefaultDelta < MaxJumps
    /\ now' = now + DefaultDelta
    /\ UNCHANGED <<users, devices, pc, loc, issued, last, prev, nreq, workers>>

\* ------------------------------------------------------------- responses
\* a request arrives at an idle worker
Begin(p) ==
    /\ p <= workers
    /\ pc[p] = "idle"
    /\ nreq < MaxReqs
    /\ nreq' = nreq + 1
    /\ UNCHANGED workers

StartLoc(op) == [NoLoc EXCEPT !.op = op, !.nu0 = Len(users), !.nd0 = Len(devices)]

Goto(p, label, l) ==
    /\ pc' = [pc EXCEPT ![p] = label]
    /\ loc' = [loc EXCEPT ![p] = l]
    /\ UNCHANGED <<issued, last, prev>>

\* the handler returns r: the worker is idle again and the client keeps
\* the token of a successful token response
Respond(p, r) ==
    /\ pc' = [pc EXCEPT ![p] = "idle"]
    /\ loc' = [loc EXCEPT ![p] = NoLoc]
    /\ prev' = last
    /\ last' = r
    /\ issued' = IF r.status = 200 /\ r.op \notin {"me", "verify_token"}
                 THEN issued \cup {[op |-> r.op, user |-> r.user, token |-> r.token]}
                 ELSE issued

\* HTTPException(status, detail) leaving handler l, tables us and ds
Failure(l, status, detail, verr, us, ds) ==
    [NoResp EXCEPT !.op = l.op, !.fp = l.fp, !.status = status, !.detail = detail,
                   !.username = l.username, !.email = l.email,
                   !.user = l.user,
                   !.verr = verr, !.presented = l.token, !.at = IF l.op = "me" THEN l.t ELSE 0,
                   !.nu0 = l.nu0, !.nd0 = l.nd0, !.nu1 = Len(us), !.nd1 = Len(ds)]

\* TokenResponse(access_token, "bearer", UserResponse(id = l.user, ...))
\* for the device row ds[i]
TokenResponse(l, token, us, ds, i) ==
    [NoResp EXCEPT !.op = l.op, !.fp = l.fp, !.status = 200, !.user = l.user,
                   !.username = l.username, !.email = l.email,
                   !.token = token,
                   !.nu0 = l.nu0, !.nd0 = l.nd0, !.nu1 = Len(us), !.nd1 = Len(ds),
                   !.lua = ds[i].last_used_at]

UsedUserIds == {users[i].id : i \in 1 .. Len(users)}

DeviceIds(ds) == {ds[i].device_id : i \in 1 .. Len(ds)}

\* a device row with a server-generated device_id and secret is committed,
\* the token is made for it at time t and the response returned
InsertUuidDevice(p, t) ==
    LET d == FreshUuid(devices)
        s == FreshSecret(devices)
        ds == Append(devices, NewDevice(d, s, loc[p].user, loc[p].t))
    IN /\ devices' = ds
       /\ Respond(p, TokenResponse(loc[p],
                       create_device_specific_jwt(loc[p].user, d, s, NoDelta, t, t),
                       users, ds, Len(ds)))

\* the default user of a first-time visitor; a duplicate email is an
\* IntegrityError, answered 500 after the rollback
InsertDefaultUser(p, label) ==
    IF EmailTaken(users, DemoEmail)
    THEN /\ Respond(p, Failure(loc[p], 500, "internal", "IntegrityError users.email", users, devices))
         /\ UNCHANGED users
    ELSE \E id \in UserIds \ UsedUserIds :
           /\ users' = Append(users, NewUser(id, DemoName, DemoEmail))
           /\ Goto(p, label, [loc[p] EXCEPT !.user = id])

\* ------------------------------------------------------------- register
\* lines 257-263: the email query, the Conflict, the reading of now
RegisterCheckBody(p, l, t) ==
    IF EmailTaken(users, l.email)
    THEN Respond(p, Failure(l, 400, "Email already registered", "", users, devices))
    ELSE Goto(p, "reg_insert_user", [l EXCEPT !.t = t])

RegisterStart(p) ==
    /\ Begin(p)
    /\ \E name \in Usernames, email \in Emails, t \in Clock :
          /\ RegisterCheckBody(p, [StartLoc("register") EXCEPT !.username = name,
                                                               !.email = email], t)
          /\ now' = t
    /\ UNCHANGED <<users, devices>>

\* register() entered from login(): the same query, run again
RegisterCheck(p) ==
    /\ pc[p] = "reg_check"
    /\ \E t \in Clock : RegisterCheckBody(p, loc[p], t) /\ now' = t
    /\ UNCHANGED <<users, devices, nreq, workers>>

\* lines 265-278: db.add(db_user); db.commit().  A duplicate email raises
\* IntegrityError, which the generic handler turns into 500 after rollback
RegisterInsertUser(p) ==
    /\ pc[p] = "reg_insert_user"
    /\ IF EmailTaken(users, loc[p].email)
       THEN /\ Respond(p, Failure(loc[p], 500, "internal", "IntegrityError users.email", users, devices))
            /\ UNCHANGED users
       ELSE \E id \in UserIds \ UsedUserIds :
              /\ users' = Append(users, NewUser(id, loc[p].username, loc[p].email))
              /\ Goto(p, "reg_insert_device", [loc[p] EXCEPT !.user = id])
    /\ UNCHANGED <<devices, now, nreq, workers>>

\* lines 281-318
RegisterInsertDevice(p) ==
    /\ pc[p] = "reg_insert_device"
    /\ \E t \in Clock : InsertUuidDevice(p, t) /\ now' = t
    /\ UNCHANGED <<users, nreq, workers>>

\* ---------------------------------------------------------------- login
\* lines 340-348
LoginStart(p) ==
    /\ Begin(p)
    /\ \E name \in Usernames, email \in Emails, t \in Clock :
         LET l == [StartLoc("login") EXCEPT !.username = name, !.email = email]
             m == UsersByEmail(users, email)
         IN /\ IF m = {}
               THEN Goto(p, "reg_check", l)
               ELSE Goto(p, "login_insert_device",
                         [l EXCEPT !.user = users[Min(m)].id, !.t = t])
            /\ now' = t
    /\ UNCHANGED <<users, devices>>

\* lines 346-384
LoginInsertDevice(p) ==
    /\ pc[p] = "login_insert_device"
    /\ \E t \in Clock : InsertUuidDevice(p, t) /\ now' = t
    /\ UNCHANGED <<users, nreq, workers>>

\* ---------------------------------------------------------- auto-connect
\* lines 414-417 and 447-449: db.query(DBUser).first()
AutoConnectStart(p) ==
    /\ Begin(p)
    /\ \E fp \in Fingerprints, t \in Clock :
         LET l == [StartLoc("auto_connect") EXCEPT !.fp = fp]
         IN /\ IF Len(users) > 0
               THEN Goto(p, "goc_lookup", [l EXCEPT !.user = users[FirstUser(users)].id])
               ELSE Goto(p, "ac_insert_user", l)
            /\ now' = t
    /\ UNCHANGED <<users, devices>>

\* lines 451-464
AutoConnectInsertUser(p) ==
    /\ pc[p] = "ac_insert_user"
    /\ InsertDefaultUser(p, "goc_lookup")
    /\ UNCHANGED <<devices, now, nreq, workers>>

\* get_or_create_device_for_fingerprint, lines 87-100 / 104-107: the lookup
\* and the reading of now
GetOrCreateLookup(p) ==
    /\ pc[p] = "goc_lookup"
    /\ \E t \in Clock :
         LET m == DeviceMatches(devices, loc[p].fp, loc[p].user)
         IN /\ IF m # {}
               THEN Goto(p, "goc_touch", [loc[p] EXCEPT !.idx = Min(m), !.t = t])
               ELSE Goto(p, "goc_insert", [loc[p] EXCEPT !.t = t])
            /\ now' = t
    /\ UNCHANGED <<users, devices, nreq, workers>>

\* a fresh secret written to the row on every reconnect
TouchedSecret_Rotated(row) == row.jwt_secret_key + 1

\* the secret the found row keeps
TouchedSecret(row) == row.jwt_secret_key

\* the secret rewritten together with last_used_at
TouchDevice_NewSecret(ds, i, t) ==
    [ds EXCEPT ![i].last_used_at = t, ![i].jwt_secret_key = @ + 1]

\* last_used_at set on every row
TouchDevice_AllRows(ds, i, t) == [j \in 1 .. Len(ds) |-> [ds[j] EXCEPT !.last_used_at = t]]

\* last_used_at reset instead of set to the time read
TouchDevice_Reset(ds, i, t) == [ds EXCEPT ![i].last_used_at = 0]

\* existing_device.last_used_at = datetime.now(timezone.utc); db.commit()
TouchDevice(ds, i, t) == [ds EXCEPT ![i].last_used_at = t]

\* lines 100-102 and the response of auto_connect (427-445, 475-494):
\* last_used_at is committed, the token made with the row's own secret
GetOrCreateTouch(p) ==
    /\ pc[p] = "goc_touch"
    /\ \E t \in Clock :
         LET i == loc[p].idx
             ds == [TouchDevice(devices, i, loc[p].t) EXCEPT
                       ![i].jwt_secret_key = TouchedSecret(devices[i])]
         IN /\ devices' = ds
            /\ Respond(p, TokenResponse(loc[p],
                            create_device_specific_jwt(loc[p].user, ds[i].device_id,
                                                       ds[i].jwt_secret_key, NoDelta, t, t),
                            users, ds, i))
            /\ now' = t
    /\ UNCHANGED <<users, nreq, workers>>

\* lines 106-123 and the response of auto_connect: the INSERT, refused by
\* the unique constraint on device_id (IntegrityError, answered 500)
GetOrCreateInsert(p) ==
    /\ pc[p] = "goc_insert"
    /\ \E t \in Clock :
         /\ IF DeviceIdTaken(devices, loc[p].fp)
            THEN /\ Respond(p, Failure(loc[p], 500, "internal",
                                         "IntegrityError devices.device_id", users, devices))
                 /\ UNCHANGED devices
            ELSE LET s == FreshSecret(devices)
                     ds == Append(devices, NewDevice(loc[p].fp, s, loc[p].user, loc[p].t))
                 IN /\ devices' = ds
                    /\ Respond(p, TokenResponse(loc[p],
                                    create_device_specific_jwt(loc[p].user, loc[p].fp, s, NoDelta, t, t),
                                    users, ds, Len(ds)))
         /\ now' = t
    /\ UNCHANGED <<users, nreq, workers>>

\* ------------------------------------------------------------ auto-login
\* lines 544-550 and 587-589
AutoLoginStart(p) ==
    /\ Begin(p)
    /\ \E t \in Clock :
         LET l == [StartLoc("auto_login") EXCEPT !.t = t]
         IN /\ IF Len(users) > 0
               THEN Goto(p, "al_insert_device", [l EXCEPT !.user = users[FirstUser(users)].id])
               ELSE Goto(p, "al_insert_user", l)
            /\ now' = t
    /\ UNCHANGED <<users, devices>>

\* lines 591-604
AutoLoginInsertUser(p) ==
    /\ pc[p] = "al_insert_user"
    /\ InsertDefaultUser(p, "al_insert_device")
    /\ UNCHANGED <<devices, now, nreq, workers>>

\* lines 548-585 and 607-642
AutoLoginInsertDevice(p) ==
    /\ pc[p] = "al_insert_device"
    /\ \E t \in Clock : InsertUuidDevice(p, t) /\ now' = t
    /\ UNCHANGED <<users, nreq, workers>>

\* --------------------------------------------------------- GET /auth/me
\* what a client can put after "Bearer ": a token it was given, that token
\* with a claim rewritten and the signature left as issued, or the same
\* claims signed with a key it knows
Presentable ==
    LET toks == {e.token : e \in issued}
    IN toks
       \cup {[t EXCEPT !.device_id = d] : t \in toks, d \in DeviceIds(devices) \cup {EmptyStr}}
       \cup {[t EXCEPT !.sub = u] : t \in toks, u \in {0} \cup UsedUserIds}
       \cup {[t EXCEPT !.exp = t.exp + 1] : t \in toks}
       \cup {Encode(t.sub, t.device_id, t.iat, t.exp, SharedKey) : t \in toks}

\* get_current_user lines 218-221 and verify_device_token lines 161-193:
\* the header check, both decodes, the device lookup, the reading of now
MeStart(p) ==
    /\ Begin(p)
    /\ \E t \in Clock :
         /\ \/ Respond(p, Failure(StartLoc("me"), 401, "Authorization token required",
                                  "NoHeader", users, devices))
            \/ \E tok \in Presentable :
                 LET l == [StartLoc("me") EXCEPT !.token = tok, !.t = t]
                     verr == VerifyError(tok, devices, t)
                 IN IF verr # "ok"
                    THEN Respond(p, Failure(l, 401, VerifyDetail(verr), verr, users, devices))
                    ELSE Goto(p, "me_commit",
                              [l EXCEPT !.idx = FirstDevice(devices, tok.device_id, tok.sub)])
         /\ now' = t
    /\ UNCHANGED <<users, devices>>

\* get_current_user lines 236-246: the request-scoped context
get_current_user(user, device_id) ==
    [id |-> user.id, username |-> user.username, email |-> user.email,
     device_id |-> device_id]

\* dict.pop(key, None)
Pop(d, key) == [k \in DOMAIN d \ {key} |-> d[k]]

\* UserResponse(**d): the declared fields, anything else in d is ignored
UserResponse(d) == [k \in DOMAIN d \cap {"id", "username", "email"} |-> d[k]]

\* the context handed back as it came
get_current_user_info_Context(current_user) == current_user

\* GET /auth/me, lines 514-530
get_current_user_info(current_user) == UserResponse(Pop(current_user, "device_id"))

\* verify_device_token lines 193-197, get_current_user lines 226-246 and
\* get_current_user_info: last_used_at committed, the user loaded, the
\* profile returned without device_id
MeCommit(p) ==
    /\ pc[p] = "me_commit"
    /\ LET l == loc[p]
           ds == TouchDevice(devices, l.idx, l.t)
           m == UsersById(users, l.token.sub)
       IN /\ devices' = ds
          /\ IF m = {}
             THEN Respond(p, Failure(l, 401, "User not found", "UserNotFound", users, ds))
             ELSE Respond(p, [Failure(l, 200, "", "ok", users, ds) EXCEPT
                                 !.user = users[Min(m)].id,
                                 !.claims = Claims(l.token),
                                 !.profile = get_current_user_info(
                                     get_current_user(users[Min(m)], l.token.device_id)),
                                 !.lua = ds[l.idx].last_used_at])
    /\ UNCHANGED <<users, now, nreq, workers>>

\* ------------------------------------------------------ direct issuance
\* an issuer that records the use of the device it signs for
StoreAfterIssue_Touched(ds, i, t) == [ds EXCEPT ![i].last_used_at = t + 1]

\* the devices table after create_device_specific_jwt has run for row i:
\* the function takes no session and writes nothing
StoreAfterIssue(ds, i, t) == ds

\* create_device_specific_jwt called for a stored device with an explicit
\* or the default expires_delta; t1 and t2 are its two readings of now
IssueDirect(p) ==
    /\ Begin(p)
    /\ \E i \in 1 .. Len(devices), delta \in {NoDelta, 0, ShortDelta}, t1 \in Clock :
         \E t2 \in {t1} \cup (IF t1 % DefaultDelta < MaxTicks THEN {t1 + 1} ELSE {}) :
            /\ devices' = StoreAfterIssue(devices, i, t2)
            /\ Respond(p, [TokenResponse(
                              [StartLoc("issue") EXCEPT !.user = devices[i].user_id],
                              create_device_specific_jwt(devices[i].user_id,
                                  devices[i].device_id, devices[i].jwt_secret_key,
                                  delta, t1, t2),
                              users, devices', i) EXCEPT !.ttl = delta])
            /\ now' = t2
    /\ UNCHANGED users

\* ------------------------------------------------------ storage failures
\* the status a handler answers when a database statement raises: the
\* "except Exception" of verify_device_token (line 201) for /auth/me, the
\* generic handler of the four token endpoints otherwise
FaultStatus(op) == IF op = "me" THEN 401 ELSE 500

FaultDetail(op) == IF op = "me" THEN "Token verification failed" ELSE "internal"

\* the exception leaves the handler; the rollback undoes nothing that an
\* earlier db.commit() of the same request has written
RaiseStorageError(p, l) ==
    /\ Respond(p, Failure(l, FaultStatus(l.op), FaultDetail(l.op), "StorageError",
                          users, devices))
    /\ UNCHANGED <<users, devices>>

\* the first query of a request raises (lines 257, 340, 414, 544, and 173
\* for a token that has a device_id and a sub)
StartFault(p) ==
    /\ Begin(p)
    /\ \E t \in Clock :
         /\ \/ \E op \in {"register", "login"}, name \in Usernames, email \in Emails :
                 RaiseStorageError(p, [StartLoc(op) EXCEPT !.username = name,
                                                          !.email = email])
            \/ \E fp \in Fingerprints :
                 RaiseStorageError(p, [StartLoc("auto_connect") EXCEPT !.fp = fp])
            \/ RaiseStorageError(p, StartLoc("auto_login"))
            \/ \E tok \in Presentable :
                 /\ Len(tok.device_id) > 0 /\ tok.sub # 0
                 /\ RaiseStorageError(p, [StartLoc("me") EXCEPT !.token = tok, !.t = t])
         /\ now' = t

\* the statement a running handler is about to execute raises
StatementFault(p) ==
    /\ pc[p] # "idle"
    /\ RaiseStorageError(p, loc[p])
    /\ UNCHANGED <<now, nreq, workers>>

\* ----------------------------------------------------------- legacy mode
\* create_access_token({"sub": sub}, expires_delta, device_id): signed with
\* JWT_SECRET_KEY; uuid is the str(uuid.uuid4()) it generates when no
\* device_id is given; data carries no iat (0)
create_access_token(sub, expires_delta, device_id, uuid, t) ==
    Encode(sub, IF Len(device_id) > 0 THEN device_id ELSE uuid, 0,
           NumericDate(ExpireAt(expires_delta, t)), SharedKey)

\* verify_token: the verified decode under JWT_SECRET_KEY, as its error
verify_token(token, t) ==
    IF ~SignatureOk(token, SharedKey) THEN "InvalidSignature"
    ELSE IF ~ExpOk(token, t) THEN "Expired"
    ELSE "ok"

\* create_access_token called for a stored user, with or without a device_id
IssueLegacy(p) ==
    /\ Begin(p)
    /\ \E u \in UsedUserIds, d \in DeviceIds(devices) \cup {EmptyStr}, t \in Clock :
         /\ Respond(p, [Failure([StartLoc("legacy") EXCEPT !.user = u], 200, "", "",
                                users, devices)
                           EXCEPT !.token = create_access_token(u, NoDelta, d,
                                                FreshUuid(devices), t)])
         /\ now' = t
    /\ UNCHANGED <<users, devices>>

\* verify_token called on a token a client holds
LegacyVerify(p) ==
    /\ Begin(p)
    /\ \E tok \in Presentable, t \in Clock :
         LET l == [StartLoc("verify_token") EXCEPT !.token = tok, !.t = t]
             verr == verify_token(tok, t)
         IN /\ Respond(p, [Failure(l, IF verr = "ok" THEN 200 ELSE 401,
                                   IF verr = "ok" THEN "" ELSE "Invalid token",
                                   verr, users, devices)
                              EXCEPT !.at = t,
                                     !.claims = IF verr = "ok" THEN Claims(tok) ELSE NoClaims])
            /\ now' = t
    /\ UNCHANGED <<users, devices>>

\* ------------------------------------------------- device administration
\* is_active of a device row set to false by an administrator, between two
\* requests; no endpoint does it
Deactivate(i) ==
    /\ AllIdle
    /\ devices[i].is_active
    /\ devices' = [devices EXCEPT ![i].is_active = FALSE]
    /\ UNCHANGED <<users, now, pc, loc, issued, last, prev, nreq, workers>>

\* ------------------------------------------------------ specifications
Step(p) ==
    \/ RegisterStart(p)
    \/ RegisterCheck(p)
    \/ RegisterInsertUser(p)
    \/ RegisterInsertDevice(p)
    \/ LoginStart(p)
    \/ LoginInsertDevice(p)
    \/ AutoConnectStart(p)
    \/ AutoConnectInsertUser(p)
    \/ GetOrCreateLookup(p)
    \/ GetOrCreateTouch(p)
    \/ GetOrCreateInsert(p)
    \/ AutoLoginStart(p)
    \/ AutoLoginInsertUser(p)
    \/ AutoLoginInsertDevice(p)
    \/ MeStart(p)
    \/ MeCommit(p)

Next == \E p \in Procs : Step(p)

\* concurrent workers within one token lifetime: the handlers interleave at
\* their database statements
Spec == Init /\ [][Next]_vars

NextSeq == Next \/ Jump

\* one request at a time, over more than a token lifetime
SpecSeq == InitSeq /\ [][NextSeq]_vars

NextIssue == NextSeq \/ \E p \in Procs : IssueDirect(p)

\* the sequential system with tokens of either lifetime issued directly
SpecIssue == InitSeq /\ [][NextIssue]_vars

NextFault == Next \/ \E p \in Procs : (StartFault(p) \/ StatementFault(p))

\* one request at a time, any database statement may fail
SpecFault == InitSeq /\ [][NextFault]_vars

NextAdmin == NextSeq \/ \E i \in 1 .. Len(devices) : Deactivate(i)

\* one request at a time, devices deactivated between requests
SpecAdmin == InitSeq /\ [][NextAdmin]_vars

NextLegacy ==
    \/ NextSeq
    \/ \E p \in Procs : IssueLegacy(p)
    \/ \E p \in Procs : LegacyVerify(p)

\* one request at a time, with the legacy issuer and verifier in use
SpecLegacy == InitSeq /\ [][NextLegacy]_vars

TypeOK ==
    /\ nreq \in 0 .. MaxReqs
    /\ \A i \in 1 .. Len(devices) : devices[i].user_id \in UsedUserIds

\* ================================================================ claims
\* the active device rows a token names: (device_id, user_id) = (device_id, sub)
NamedRows(tok) ==
    {i \in 1 .. Len(devices) : /\ devices[i].device_id = tok.device_id
                               /\ devices[i].user_id = tok.sub
                               /\ devices[i].is_active}

\* the token's signature is the MAC of its claims under the secret of row i
SignedByRow(tok, i) ==
    tok.sig = [key |-> devices[i].jwt_secret_key, sub |-> tok.sub,
               device_id |-> tok.device_id, iat |-> tok.iat, exp |-> tok.exp]

\* the last request was GET /auth/me and its token passed verify_device_token
MeVerified == last.op = "me" /\ last.verr \in {"ok", "UserNotFound"}

\* C1 as stated: verification succeeds only for a token that names an active
\* device row, is signed with that row's secret and whose exp is later than
\* the time of the verification; a request that fails carries no claims.
C1_ExpLaterThanNow ==
    /\ MeVerified =>
         \E i \in NamedRows(last.presented) :
            /\ SignedByRow(last.presented, i)
            /\ last.presented.exp * TicksPerSec > last.at
    /\ (last.op = "me" /\ ~MeVerified) => last.claims = NoClaims

\* C1 amended: verification succeeds only for a token that names an active
\* device row, is signed with that row's secret and whose exp is not earlier
\* than the time of the verification in whole seconds (the second that
\* equals exp still counts); a request that fails carries no claims.
C1_VerifiedOnlyIf ==
    /\ MeVerified =>
         \E i \in NamedRows(last.presented) :
            /\ SignedByRow(last.presented, i)
            /\ (last.presented.exp + 1) * TicksPerSec > last.at
    /\ (last.op = "me" /\ ~MeVerified) => last.claims = NoClaims

\* a token is accepted in the very second of its exp, a lifetime after issue
C1_Witness ==
    /\ MeVerified
    /\ last.status = 200
    /\ last.presented.exp * TicksPerSec <= last.at

\* tok is a token some response carried, its device_id rewritten to another
\* stored device's and its signature left as issued
CrossDevice(tok) ==
    /\ tok.device_id \in DeviceIds(devices)
    /\ \E e \in issued : /\ e.token.device_id # tok.device_id
                         /\ tok = [e.token EXCEPT !.device_id = tok.device_id]

\* the device tok names belongs to the user tok names
SameOwner(tok) ==
    \E i \in 1 .. Len(devices) :
       devices[i].device_id = tok.device_id /\ devices[i].user_id = tok.sub

\* C2 as stated: a token of device A rewritten to any other existing device
\* B fails with InvalidSignature.
C2_AnyTwoDevices ==
    (last.op = "me" /\ CrossDevice(last.presented)) => last.verr = "InvalidSignature"

\* C2 amended: a token of device A rewritten to another existing device B of
\* the same user fails with InvalidSignature (with InvalidFormat when B's
\* device_id is the empty string), never with DeviceNotFound.
C2_SameOwnerDevices ==
    (last.op = "me" /\ CrossDevice(last.presented) /\ SameOwner(last.presented)) =>
       last.verr = (IF Len(last.presented.device_id) = 0
                    THEN "InvalidFormat" ELSE "InvalidSignature")

\* a rewritten token was presented and refused for its signature
C2_Witness ==
    /\ last.op = "me"
    /\ CrossDevice(last.presented)
    /\ SameOwner(last.presented)
    /\ last.verr = "InvalidSignature"

\* the token of the last /auth/me request is one a response carried, exactly
\* as issued, presented before its exp
PresentedAsIssued(e) ==
    /\ last.op = "me"
    /\ e.token = last.presented
    /\ last.at < e.token.exp * TicksPerSec

\* C3: a token issued for a stored device with any lifetime and verified
\* before its expiry gives back the claims it was issued with.
C3_RoundTrip ==
    \A e \in issued :
       PresentedAsIssued(e) =>
          /\ MeVerified
          /\ last.claims = [sub |-> e.user, device_id |-> e.token.device_id,
                            iat |-> e.token.iat, exp |-> e.token.exp]

\* C4 as stated: a token that names an active device, is signed with its
\* secret and whose exp is earlier than the time of verification fails with
\* Expired.
C4_ExpEarlierThanNow ==
    (/\ last.op = "me"
     /\ \E i \in NamedRows(last.presented) : SignedByRow(last.presented, i)
     /\ last.presented.exp * TicksPerSec < last.at)
    => last.verr = "Expired"

\* C4 amended: such a token whose exp is earlier than the time of
\* verification in whole seconds fails with Expired (with InvalidFormat when
\* its device_id is the empty string).
C4_ExpiredWholeSeconds ==
    (/\ last.op = "me"
     /\ \E i \in NamedRows(last.presented) : SignedByRow(last.presented, i)
     /\ (last.presented.exp + 1) * TicksPerSec <= last.at)
    => last.verr = (IF Len(last.presented.device_id) = 0
                    THEN "InvalidFormat" ELSE "Expired")

\* a correctly signed token of a stored device was refused as expired
C4_Witness ==
    /\ last.op = "me"
    /\ \E i \in NamedRows(last.presented) : SignedByRow(last.presented, i)
    /\ last.verr = "Expired"

\* C5: a token carried by a successful register, login, auto-connect or
\* auto-login response is accepted by /auth/me before its expiry, whatever
\* happened in between, and /auth/me answers with the same user id.
C5_IssuedTokenAccepted ==
    \A e \in issued :
       PresentedAsIssued(e) => (last.status = 200 /\ last.user = e.user)

\* C6: at most one active device row per (fingerprint, user).
C6_OneActiveDevicePerPair ==
    \A i, j \in 1 .. Len(devices) :
       (/\ i # j
        /\ devices[i].device_id = devices[j].device_id
        /\ devices[i].user_id = devices[j].user_id)
       => ~(devices[i].is_active /\ devices[j].is_active)

\* a request missed the lookup and is about to insert a row that another
\* request has inserted meanwhile
C6_Witness ==
    \E p \in Procs :
       /\ pc[p] = "goc_insert"
       /\ DeviceMatches(devices, loc[p].fp, loc[p].user) # {}

\* C7: once auto-connect has resolved its user,
\* get_or_create_device_for_fingerprint does not fail: the request is
\* answered with an active device row of that fingerprint and user.
C7_GetOrCreateNeverFails ==
    (last.op = "auto_connect" /\ last.verr # "IntegrityError users.email") =>
       /\ last.status = 200
       /\ DeviceMatches(devices, last.fp, last.user) # {}

\* two auto-connect calls, one after the other, same fingerprint, same user
SameDeviceTwice ==
    /\ prev.op = "auto_connect" /\ prev.status = 200
    /\ last.op = "auto_connect"
    /\ last.fp = prev.fp
    /\ last.user = prev.user

\* C8: the second of two sequential auto-connect calls with the same
\* fingerprint and user returns a token with the same device_id, creates no
\* device row and leaves last_used_at not earlier than the first left it.
C8_FingerprintIdempotence ==
    SameDeviceTwice =>
       /\ last.status = 200
       /\ last.token.device_id = prev.token.device_id
       /\ last.nd1 = last.nd0
       /\ last.lua >= prev.lua

\* the second call came a later time than the first
C8_Witness == SameDeviceTwice /\ last.status = 200 /\ last.lua > prev.lua

\* an auto-connect on a store without users, followed by one with another
\* fingerprint
FirstThenOther ==
    /\ prev.op = "auto_connect" /\ prev.status = 200 /\ prev.nu0 = 0
    /\ last.op = "auto_connect"
    /\ last.fp # prev.fp

\* C9: auto-connect on a store with no users creates exactly one user and
\* one device; a following auto-connect with a different fingerprint creates
\* exactly one more device, owned by the same user, and no user.
C9_Provisioning ==
    /\ (last.op = "auto_connect" /\ last.nu0 = 0) =>
          /\ last.status = 200
          /\ last.nu1 = 1
          /\ last.nd0 = 0 /\ last.nd1 = 1
    /\ FirstThenOther =>
          /\ last.status = 200
          /\ last.nu1 = last.nu0
          /\ last.nd1 = last.nd0 + 1
          /\ last.user = prev.user
          /\ DeviceMatches(devices, last.fp, prev.user) # {}

C9_Witness == FirstThenOther /\ last.status = 200 /\ Len(devices) = 2

\* C10: all successful auto-connect responses for one fingerprint carry the
\* same user id and tokens signed with the same device secret.
C10_SameIdentityOnReconnect ==
    \A e1, e2 \in issued :
       (/\ e1.op = "auto_connect" /\ e2.op = "auto_connect"
        /\ e1.token.device_id = e2.token.device_id)
       => (e1.user = e2.user /\ e1.token.sig.key = e2.token.sig.key)

\* a device reconnected after another user had registered
C10_Witness ==
    /\ Len(users) = 2
    /\ \E e1, e2 \in issued :
          /\ e1 # e2
          /\ e1.op = "auto_connect" /\ e2.op = "auto_connect"
          /\ e1.token.device_id = e2.token.device_id

\* the four endpoints that answer with a token
TokenOps == {"register", "login", "auto_connect", "auto_login"}

\* C11: a register, login, auto-connect or auto-login request that ends in
\* an error leaves the users and devices tables as they were when it began
\* (one request at a time, so every row added since is its own).
C11_FailedRequestLeavesStore ==
    (last.op \in TokenOps /\ last.status >= 400) =>
       (last.nu1 = last.nu0 /\ last.nd1 = last.nd0)

\* the email of request r belonged to a stored user when r began (rows are
\* only ever appended, so the first nu0 rows are the table of that moment)
StoredBefore(r) == \E i \in 1 .. r.nu0 : users[i].email = r.email

\* C12: register with an email that belongs to a stored user fails with
\* status 400 and leaves users and devices unchanged.
C12_RegisterConflict ==
    (last.op = "register" /\ StoredBefore(last)) =>
       /\ last.status = 400
       /\ last.detail = "Email already registered"
       /\ last.nu1 = last.nu0
       /\ last.nd1 = last.nd0

\* a register was refused for its email
C12_Witness ==
    /\ last.op = "register"
    /\ StoredBefore(last)
    /\ last.status = 400
    /\ Len(users) = last.nu0

\* what register leaves behind for response r: one more user with r's
\* username and email, one more device, active and owned by that user, and a
\* token for that user and device signed with the device's secret
Registered(r) ==
    /\ r.status = 200
    /\ r.nu1 = r.nu0 + 1
    /\ users[r.nu1] = [id |-> r.user, username |-> r.username, email |-> r.email]
    /\ r.nd1 = r.nd0 + 1
    /\ devices[r.nd1].user_id = r.user
    /\ devices[r.nd1].is_active
    /\ r.token.sub = r.user
    /\ r.token.device_id = devices[r.nd1].device_id
    /\ SignedByRow(r.token, r.nd1)

\* C13: register with an email not yet stored creates exactly one user with
\* that username and email and exactly one active device owned by that user,
\* and returns a token whose sub is the new user's id and whose device_id is
\* the new device's, signed with the new device's secret.
C13_RegisterCreates ==
    (last.op = "register" /\ ~StoredBefore(last)) => Registered(last)

\* a register succeeded on a store that already held another user
C13_Witness ==
    /\ last.op = "register"
    /\ last.status = 200
    /\ last.nu0 = 1
    /\ Len(devices) = last.nd1

\* what login leaves behind for a stored email: no new user, one more
\* device owned by the user of that email, a token for that user and device
LoggedIn(r) ==
    /\ r.status = 200
    /\ r.nu1 = r.nu0
    /\ \E i \in 1 .. r.nu0 : users[i].email = r.email /\ users[i].id = r.user
    /\ r.nd1 = r.nd0 + 1
    /\ devices[r.nd1].user_id = r.user
    /\ devices[r.nd1].is_active
    /\ r.token.sub = r.user
    /\ r.token.device_id = devices[r.nd1].device_id
    /\ SignedByRow(r.token, r.nd1)

\* C14: login with an email not stored has the effect and result of register
\* with the same username and email; login with a stored email creates no
\* user, leaves every stored user record as it was, creates exactly one
\* device owned by that user and returns a token for that user and device.
C14_LoginOrRegister ==
    /\ [](last.op = "login" => IF StoredBefore(last) THEN LoggedIn(last)
                                                    ELSE Registered(last))
    /\ [][\A p \in Procs :
            loc[p].op = "login" =>
               \A i \in 1 .. Len(users) : users'[i] = users[i]]_vars

\* a login for a stored email, after a login that registered it
C14_Witness ==
    /\ prev.op = "login" /\ ~StoredBefore(prev) /\ prev.status = 200
    /\ last.op = "login" /\ StoredBefore(last) /\ last.status = 200
    /\ last.email = prev.email

\* C15: any two /auth/me requests that fail authentication are answered
\* with the same status and the same body.
C15_UniformAuthFailure ==
    (/\ prev.op = "me" /\ prev.status # 200
     /\ last.op = "me" /\ last.status # 200)
    => (last.status = prev.status /\ last.detail = prev.detail)

\* the token of /auth/me response r cannot authenticate: it has no
\* device_id or no sub, names no active device row, is not signed with that
\* row's secret, is a full second past its exp, or names a user not stored
AuthFailureCause(r) ==
    \/ Len(r.presented.device_id) = 0
    \/ r.presented.sub = 0
    \/ NamedRows(r.presented) = {}
    \/ ~\E i \in NamedRows(r.presented) : SignedByRow(r.presented, i)
    \/ (r.presented.exp + 1) * TicksPerSec <= r.at
    \/ UsersById(users, r.presented.sub) = {}

\* C16: every authentication failure of get_current_user is answered with
\* status 401, never with 200, 400 or 500.
C16_AuthFailureIs401 ==
    last.op = "me" =>
       /\ last.status \in {200, 401}
       /\ AuthFailureCause(last) => last.status = 401
       /\ last.verr # "ok" => last.status = 401

\* a token whose device_id claim is empty was refused, and the request
\* before it failed for another reason
C16_Witness ==
    /\ last.op = "me" /\ last.status = 401
    /\ Len(last.presented.device_id) = 0 /\ last.presented.sub # 0
    /\ prev.op = "me" /\ prev.status = 401 /\ prev.verr # last.verr

\* C17: a storage failure during any request is answered with status 500.
C17_StorageFailureIsInternal ==
    last.verr = "StorageError" => last.status = 500

\* C18: the body of a successful GET /auth/me is the stored record of the
\* user whose id is the verified token's sub, and has no device_id field.
C18_ProfileWithoutDevice ==
    (last.op = "me" /\ last.status = 200) =>
       /\ last.profile.id = last.claims.sub
       /\ \E i \in 1 .. Len(users) :
             last.profile = [id |-> users[i].id, username |-> users[i].username,
                             email |-> users[i].email]
       /\ "device_id" \notin DOMAIN last.profile

\* a profile was returned for a request whose context carried the device_id
C18_Witness ==
    /\ last.op = "me" /\ last.status = 200
    /\ \E i \in 1 .. Len(users) :
          /\ users[i].id = last.claims.sub
          /\ get_current_user(users[i], last.claims.device_id).device_id
                = last.presented.device_id
    /\ Len(last.presented.device_id) > 0

\* every key in use: the process-wide one and each device's
KeysInUse == {SharedKey} \cup {devices[i].jwt_secret_key : i \in 1 .. Len(devices)}

\* C19: nothing sent to a client depends on a device secret but the token
\* signature: the claims of an issued token are the user id, the device_id
\* and two times, and are the same whichever secret signs them; a token
\* response and an /auth/me profile hold user fields only.
C19_NoSecretSent ==
    /\ \A e \in issued :
          /\ DOMAIN Claims(e.token) = {"sub", "device_id", "iat", "exp"}
          /\ e.token.sub = e.user
          /\ e.token.device_id \in DeviceIds(devices)
          /\ e.token.iat \in 0 .. NumericDate(now)
          /\ \A k \in KeysInUse :
                Claims(create_device_specific_jwt(e.user, e.token.device_id, k, NoDelta,
                          e.token.iat * TicksPerSec, e.token.iat * TicksPerSec))
                   = Claims(e.token)
    /\ last.user \in {0} \cup UsedUserIds
    /\ DOMAIN last.profile = {"id", "username", "email"}
    /\ \/ last.profile = NoProfile
       \/ \E i \in 1 .. Len(users) :
             last.profile = [id |-> users[i].id, username |-> users[i].username,
                             email |-> users[i].email]

\* tokens of two devices with different secrets were sent, and a profile
C19_Witness ==
    /\ \E e1, e2 \in issued : e1.token.sig.key # e2.token.sig.key
    /\ last.op = "me" /\ last.status = 200

\* C20: a successful auto-login adds exactly one device row, whose device_id
\* no earlier row holds and which the returned token names, and creates a
\* user (the default one) only when the store had no user.
C20_AutoLoginNewDevice ==
    (last.op = "auto_login" /\ last.status = 200) =>
       /\ last.nd1 = last.nd0 + 1
       /\ \A i \in 1 .. last.nd0 : devices[i].device_id # devices[last.nd1].device_id
       /\ last.token.device_id = devices[last.nd1].device_id
       /\ devices[last.nd1].user_id = last.user
       /\ last.nu1 = (IF last.nu0 = 0 THEN 1 ELSE last.nu0)
       /\ last.nu0 = 0 => users[1] = [id |-> last.user, username |-> DemoName,
                                      email |-> DemoEmail]

\* two auto-logins in a row, the first on an empty store
C20_Witness ==
    /\ prev.op = "auto_login" /\ prev.status = 200 /\ prev.nu0 = 0
    /\ last.op = "auto_login" /\ last.status = 200 /\ last.nu0 = 1
    /\ last.user = prev.user

\* this step is worker p taking a GET /auth/me request that carries a token
MeBegins(p) ==
    /\ pc[p] = "idle"
    /\ nreq' = nreq + 1
    /\ IF pc'[p] = "idle"
       THEN pc' = pc /\ last'.op = "me" /\ last'.verr # "NoHeader"
       ELSE loc'[p].op = "me"

\* the token of that request
MeToken(p) == IF pc'[p] = "idle" THEN last'.presented ELSE loc'[p].token

\* that request is refused in this very step with error verr
MeRefused(p, verr) == pc'[p] = "idle" /\ last'.status = 401 /\ last'.verr = verr

\* tok names a device row that has been deactivated, is signed with that
\* row's secret and is not expired at time t
NamesInactive(tok, t) ==
    \E i \in 1 .. Len(devices) :
       /\ devices[i].device_id = tok.device_id
       /\ devices[i].user_id = tok.sub
       /\ ~devices[i].is_active
       /\ SignedByRow(tok, i)
       /\ t < tok.exp * TicksPerSec

\* C21: once a device row's is_active is false, every verification of a
\* correctly signed, unexpired token naming that device fails with
\* DeviceNotFound, whether or not the token was accepted before.
C21_InactiveDeviceRefused ==
    [][\A p \in Procs :
          (MeBegins(p) /\ NamesInactive(MeToken(p), now')) =>
             MeRefused(p, "DeviceNotFound")]_vars

\* C22: the jwt_secret_key of a device row never changes after the row is
\* created, whatever register, login, auto-connect, auto-login and
\* verification steps follow.
C22_SecretImmutable ==
    [][\A i \in 1 .. Len(devices) :
          /\ i <= Len(devices')
          /\ devices'[i].jwt_secret_key = devices[i].jwt_secret_key]_vars

\* a verification and a reconnect have both touched stored rows
C22_Witness ==
    /\ prev.op = "me" /\ prev.status = 200
    /\ last.op = "auto_connect" /\ last.status = 200 /\ last.nd1 = last.nd0
    /\ last.lua > 0

\* C23: every stored device row is active, and no step sets is_active to
\* false or removes a row.
C23_DevicesStayActive ==
    /\ [](\A i \in 1 .. Len(devices) : devices[i].is_active)
    /\ [][\A i \in 1 .. Len(devices) :
             /\ i <= Len(devices')
             /\ devices'[i].device_id = devices[i].device_id
             /\ devices'[i].is_active]_vars

\* rows made by different endpoints, one of them used again since
C23_Witness ==
    /\ Len(devices) >= 2
    /\ \E i \in 1 .. Len(devices) : devices[i].last_used_at > 0
    /\ last.op = "me" /\ last.status = 200

\* tok lacks a device_id or a sub (missing and empty are the same to the
\* test of line 168)
Malformed(tok) == Len(tok.device_id) = 0 \/ tok.sub = 0

\* C24: a token whose device_id or sub is missing or empty fails with
\* InvalidFormat, whatever its signature and whatever the store holds, and
\* before the device lookup is attempted.
C24_InvalidFormatFirst ==
    (last.op = "me" /\ last.verr # "NoHeader" /\ Malformed(last.presented)) =>
       /\ last.status = 401
       /\ last.verr = "InvalidFormat"
       /\ last.nd1 = last.nd0

\* a token of a stored device, signed with its secret, refused for its
\* empty device_id
C24_Witness ==
    /\ last.op = "me" /\ last.verr = "InvalidFormat"
    /\ last.presented.sub # 0
    /\ \E i \in NamedRows(last.presented) : SignedByRow(last.presented, i)

\* C25 as stated: a token whose (device_id, sub) pair matches no active
\* device row fails with DeviceNotFound.
C25_NoActiveRow ==
    [][\A p \in Procs :
          (MeBegins(p) /\ NamedRows(MeToken(p)) = {}) =>
             MeRefused(p, "DeviceNotFound")]_vars

\* C25 amended: a token that carries a non-empty device_id and sub and whose
\* pair matches no active device row fails with DeviceNotFound, also when a
\* row of that device_id belongs to another user or is inactive, and
\* whatever its signature.
C25_WellFormedNoActiveRow ==
    [][\A p \in Procs :
          (MeBegins(p) /\ ~Malformed(MeToken(p)) /\ NamedRows(MeToken(p)) = {}) =>
             MeRefused(p, "DeviceNotFound")]_vars

\* a token was refused with DeviceNotFound although a row of its device_id
\* is stored for another user, and the device of the token issued before it
\* has been deactivated
C25_Witness ==
    /\ last.op = "me" /\ last.verr = "DeviceNotFound"
    /\ \E i \in 1 .. Len(devices) :
          /\ devices[i].device_id = last.presented.device_id
          /\ devices[i].user_id # last.presented.sub
    /\ \E j \in 1 .. Len(devices) : ~devices[j].is_active

\* C26: a successful verification changes nothing but the last_used_at of
\* the device row it looked up; a failed one changes no user and no device
\* row.
C26_VerificationFrame ==
    [][\A p \in Procs :
          /\ (pc[p] = "me_commit" /\ pc'[p] = "idle") =>
                /\ users' = users
                /\ loc[p].idx \in NamedRows(loc[p].token)
                /\ devices' = [devices EXCEPT ![loc[p].idx].last_used_at =
                                                 devices'[loc[p].idx].last_used_at]
          /\ (MeBegins(p) /\ pc'[p] = "idle") =>
                (users' = users /\ devices' = devices)
          /\ (MeBegins(p) /\ pc'[p] # "idle") =>
                (users' = users /\ devices' = devices)]_vars

\* a verification succeeded while another device row held a different
\* last_used_at
C26_Witness ==
    /\ last.op = "me" /\ last.status = 200
    /\ \E i, j \in 1 .. Len(devices) : devices[i].last_used_at # devices[j].last_used_at

\* C27: /auth/me never accepts a token on the strength of the process-wide
\* key: a token signed with it, as create_access_token makes them, is
\* refused even when it names an active device of its user, every accepted
\* token is signed with the secret of the device it names, and the legacy
\* verify_token refuses every token signed with a device secret.
C27_SharedKeyNotAccepted ==
    /\ (last.op = "me" /\ last.presented.sig.key = SharedKey) => last.status = 401
    /\ (last.op = "me" /\ last.status = 200) =>
          \E i \in NamedRows(last.presented) : SignedByRow(last.presented, i)
    /\ (last.op = "verify_token" /\ last.presented.sig.key # SharedKey) =>
          last.status = 401

\* a legacy token naming an active device of its user was presented to
\* /auth/me as issued, and refused
C27_Witness ==
    /\ prev.op = "legacy" /\ prev.status = 200
    /\ last.op = "me" /\ last.presented = prev.token
    /\ NamedRows(last.presented) # {}
    /\ last.verr = "InvalidSignature"

\* C28: the exp of a directly issued token is its iat plus the ttl supplied,
\* the zero ttl included, and its iat plus 7 days when none is supplied (up
\* to the one second that the second reading of the clock can add).
C28_ExpiryArithmetic ==
    last.op = "issue" =>
       LET ttl == IF last.ttl = NoDelta THEN DefaultDelta ELSE last.ttl
       IN last.token.exp - last.token.iat \in
             {NumericDate(ttl), NumericDate(ttl) + 1}

\* C29: a direct call of create_device_specific_jwt leaves users and
\* devices unchanged, and its token is the function of the user id,
\* device_id, secret and ttl it was given and of the clock.
C29_IssueIsPure ==
    [][(nreq' = nreq + 1 /\ pc' = pc /\ last'.op = "issue") =>
          /\ users' = users
          /\ devices' = devices
          /\ \E i \in 1 .. Len(devices), t1 \in now .. now', t2 \in now .. now' :
                last'.token = create_device_specific_jwt(devices[i].user_id,
                                  devices[i].device_id, devices[i].jwt_secret_key,
                                  last'.ttl, t1, t2)]_vars

\* a token with an explicit ttl was issued for a device used before
C29_Witness ==
    /\ last.op = "issue" /\ last.status = 200
    /\ last.ttl = ShortDelta
    /\ Len(devices) >= 1

\* C30: a login request is never answered 400: it returns a token for the
\* user holding its email or fails with 500.
C30_LoginNeverConflict ==
    last.op = "login" =>
       \/ last.status = 500
       \/ /\ last.status = 200
          /\ \E i \in 1 .. Len(users) :
                users[i].email = last.email /\ users[i].id = last.user

\* C31: no two stored users share an email, under every interleaving of
\* register, login, auto-connect and auto-login; at most one default user
\* is ever stored.
C31_UniqueEmails ==
    /\ \A i, j \in 1 .. Len(users) : i # j => users[i].email # users[j].email
    /\ Cardinality(UsersByEmail(users, DemoEmail)) <= 1

\* two first visits raced on an empty store and the second INSERT of the
\* default user was refused
C31_Witness ==
    /\ last.op \in {"auto_connect", "auto_login"}
    /\ last.nu0 = 0
    /\ last.verr = "IntegrityError users.email"
    /\ Cardinality(UsersByEmail(users, DemoEmail)) = 1

\* C32: the last_used_at of a device row never decreases, under every
\* interleaving of the auto-connect requests and verifications that touch it.
C32_LastUsedMonotone ==
    [][\A i \in 1 .. Len(devices) :
          devices'[i].last_used_at >= devices[i].last_used_at]_vars

\* C33: the device_id values of all device rows are pairwise distinct,
\* fingerprints and server-generated identifiers alike, so the lookup of a
\* verification matches at most one row.
C33_DistinctDeviceIds ==
    /\ \A i, j \in 1 .. Len(devices) :
          i # j => devices[i].device_id # devices[j].device_id
    /\ \A d \in DeviceIds(devices), u \in UsedUserIds :
          Cardinality(DeviceMatches(devices, d, u)) <= 1

\* a fingerprint row and a server-generated row are stored and a second
\* INSERT of the fingerprint was refused
C33_Witness ==
    /\ last.verr = "IntegrityError devices.device_id"
    /\ \E i, j \in 1 .. Len(devices) :
          /\ IsUuid(devices[i].device_id)
          /\ devices[j].device_id = last.fp

====
